---- MODULE Spec2Model ----
(***************************************************************************)
(* Address-collection workflow (App.tsx), the form hook (useForm.ts) and   *)
(* the address-book slice (addressBookSlice.ts).                           *)
(*                                                                         *)
(* Every React state cell is a variable.  An event handler runs to         *)
(* completion on the single JS thread, so each handler is one action; the  *)
(* asynchronous handler handleAddressSubmit is two actions, split at its   *)
(* await: the synchronous prefix, and the continuation that runs when the  *)
(* fetch settles.  The continuation reads the `values` captured by the     *)
(* closure at submit time, which is what `pending` records.                *)
(***************************************************************************)
EXTENDS Integers, Sequences, FiniteSets, TLC

VARIABLES
    values,     \* useForm state: the five form fields          (useForm.ts:10)
    error,      \* useState<undefined | string>                 (App.tsx:32)
    addresses,  \* useState<AddressType[]>, the candidate list   (App.tsx:33)
    loading,    \* useState(false), the busy flag                (App.tsx:34)
    pending,    \* fetches awaited by handleAddressSubmit, each with the
                \* `values` its closure captured                 (App.tsx:71)
    book,       \* state.addresses of the address-book slice     (addressBookSlice.ts:12)
    last        \* history: the handler that ran last (op) and what it was
                \* given or found (arg): the settled fetch, the dispatched
                \* payload, the candidate list a search found on entry

vars == <<values, error, addresses, loading, pending, book, last>>

----------------------------------------------------------------------------
(* Bounds and value universes *)

\* longest `details` array a lookup response carries
MaxDetails == 2

\* longest payload dispatched to updateAddresses
MaxUpdate == 2

PostCodes == {"", "2000AN"}
HouseNumbers == {"", "17", "18"}
FirstNames == {"", "Jane", "John"}
LastNames == {"", "Doe"}
Ids == {"a1", "b1"}
Streets == {"Teststraat"}
GatewayMessages == {"Invalid postcode"}

\* `undefined` in useState<undefined | string>
Undefined == "<undefined>"

MsgSearchMandatory == "Postcode and house number fields are mandatory!"
MsgNoneFound == "No addresses found"
MsgFetchFailed == "An error occurred while fetching addresses"
MsgNamesMandatory == "First name and last name fields mandatory!"
MsgNoSelection == "No address selected, try to select an address or find one if you haven't"
MsgNotFound == "Selected address not found"

\* sequences over S of length at most n
SeqsUpTo(S, n) == UNION {[1..k -> S] : k \in 0..n}

\* sequences whose entries have pairwise distinct id
DistinctIds(s) == \A i, j \in 1..Len(s) : s[i].id = s[j].id => i = j

----------------------------------------------------------------------------
(* useForm.ts *)

initialValues ==
    [postCode |-> "", houseNumber |-> "", firstName |-> "", lastName |-> "",
     selectedAddress |-> ""]

\* handleChange for a text or radio input: { ...prevValues, [name]: value };
\* a name the mapping does not hold yet becomes a new key
handleChange(prevValues, name, value) ==
    [k \in DOMAIN prevValues \cup {name} |->
        IF k = name THEN value ELSE prevValues[k]]

\* the optional argument of resetForm: << >> when it is omitted, <<m>> for
\* the mapping m
Omitted == << >>

\* mutant: the mapping is replaced by the overlay instead of merged with it
resetFormToReplaces(prevValues, newValues, initial) ==
    IF newValues # Omitted THEN newValues[1] ELSE initial

\* mutant: only one of the keys that differ from the overlay is reset per call
resetFormToOneKeyPerCall(prevValues, newValues, initial) ==
    LET overlay == IF newValues # Omitted THEN newValues[1] ELSE initial
        differing == {k \in DOMAIN overlay :
                        k \notin DOMAIN prevValues \/ prevValues[k] # overlay[k]}
    IN IF differing = {} THEN prevValues
       ELSE LET one == CHOOSE k \in differing : TRUE
            IN [k \in DOMAIN prevValues \cup {one} |->
                   IF k = one THEN overlay[k] ELSE prevValues[k]]

\* resetForm(newValues?): { ...prevValues, ...(newValues || initialValues) }.
\* An object, the empty one too, is truthy: only an omitted argument falls
\* back to the initial values.
resetFormTo(prevValues, newValues, initial) ==
    LET overlay == IF newValues # Omitted THEN newValues[1] ELSE initial
    IN [k \in DOMAIN prevValues \cup DOMAIN overlay |->
           IF k \in DOMAIN overlay THEN overlay[k] ELSE prevValues[k]]

\* mutant: the selection is not among the keys that are reset
resetFormKeepsSelection(prevValues) ==
    [prevValues EXCEPT !.postCode = "", !.houseNumber = "",
                       !.firstName = "", !.lastName = ""]

\* mutant: only the personal-info keys are reset
resetFormPersonalOnly(prevValues) ==
    [prevValues EXCEPT !.firstName = "", !.lastName = "", !.selectedAddress = ""]

\* resetForm(): { ...prevValues, ...initialValues }.  App passes all five
\* keys as initial values, so the spread overwrites every key of prevValues.
resetForm(prevValues) == resetFormTo(prevValues, Omitted, initialValues)

----------------------------------------------------------------------------
(* addressBookSlice.ts *)

initialState == << >>

isDuplicate(state, payload) == \E i \in 1..Len(state) : state[i].id = payload.id

\* mutant: the duplicate check is dropped
addAddressAlwaysPushes(state, payload) == Append(state, payload)

\* mutant: a record with the same identifier is overwritten by the payload
addAddressOverwrites(state, payload) ==
    IF ~isDuplicate(state, payload) THEN Append(state, payload)
    ELSE [i \in 1..Len(state) |->
            IF state[i].id = payload.id THEN payload ELSE state[i]]

addAddress(state, payload) ==
    IF ~isDuplicate(state, payload) THEN Append(state, payload) ELSE state

RECURSIVE filterOut(_, _)
filterOut(s, id) ==
    IF s = << >> THEN << >>
    ELSE IF Head(s).id # id THEN <<Head(s)>> \o filterOut(Tail(s), id)
    ELSE filterOut(Tail(s), id)

\* mutant: the filter predicate is inverted (=== for !==)
removeAddressKeepsMatching(state, id) ==
    SelectSeq(state, LAMBDA address : address.id = id)

removeAddress(state, id) == filterOut(state, id)

\* mutant: the payload is pushed onto the current list instead of replacing it
updateAddressesPushes(state, payload) == state \o payload

updateAddresses(state, payload) == payload

\* selectAddress: (state: RootState) => state.addressBook.addresses
selectAddressSelector(state) == state

----------------------------------------------------------------------------
(* Lookup Gateway: what `await fetch(url)` / `await response.json()` yield *)

\* an entry of data.details, before the house number is stamped on it
RawAddresses == [id : Ids, street : Streets]

\* data.details: identifiers are unique within one response
DetailLists == {d \in SeqsUpTo(RawAddresses, MaxDetails) : DistinctIds(d)}

\* kind "throw": fetch rejected or the body failed to parse
Responses ==
    {[kind |-> "throw", status |-> "", errormessage |-> "", details |-> << >>]}
    \cup {[kind |-> "json", status |-> "error", errormessage |-> m, details |-> << >>] :
            m \in GatewayMessages}
    \cup {[kind |-> "json", status |-> "ok", errormessage |-> "", details |-> d] :
            d \in DetailLists}

----------------------------------------------------------------------------
(* App.tsx *)

\* mutant: only the postcode is validated
searchFieldsMissingPostCodeOnly(v) == v.postCode = ""

\* !values.postCode || !values.houseNumber
searchFieldsMissing(v) == v.postCode = "" \/ v.houseNumber = ""

\* mutant: the house number is read from the live field, not from the closure
transformedAddressesLiveField(details, captured) ==
    [i \in 1..Len(details) |->
        [id |-> details[i].id, street |-> details[i].street,
         houseNumber |-> values.houseNumber]]

\* data.details.map(address => ({ ...address, houseNumber: values.houseNumber }))
\* where `values` is the one the closure captured at submit time
transformedAddresses(details, captured) ==
    [i \in 1..Len(details) |->
        [id |-> details[i].id, street |-> details[i].street,
         houseNumber |-> captured.houseNumber]]

\* !values.firstName || !values.lastName
namesMissing(v) == v.firstName = "" \/ v.lastName = ""

\* !values.selectedAddress || !addresses.length
noSelection(v, addrs) == v.selectedAddress = "" \/ Len(addrs) = 0

\* mutant: falls back to the first candidate when nothing matches
foundAddressOrFirst(addrs, id) ==
    IF \E i \in 1..Len(addrs) : addrs[i].id = id
    THEN CHOOSE i \in 1..Len(addrs) :
            /\ addrs[i].id = id
            /\ \A j \in 1..(i - 1) : addrs[j].id # id
    ELSE IF Len(addrs) > 0 THEN 1 ELSE 0

\* addresses.find(address => address.id === values.selectedAddress):
\* the index of the first match, 0 for `undefined`
foundAddress(addrs, id) ==
    IF \E i \in 1..Len(addrs) : addrs[i].id = id
    THEN CHOOSE i \in 1..Len(addrs) :
            /\ addrs[i].id = id
            /\ \A j \in 1..(i - 1) : addrs[j].id # id
    ELSE 0

\* mutant: firstName and lastName are swapped in the merge
mergedAddressSwapped(found, v) ==
    [id |-> found.id, street |-> found.street, houseNumber |-> found.houseNumber,
     firstName |-> v.lastName, lastName |-> v.firstName]

\* { ...foundAddress, firstName: values.firstName, lastName: values.lastName }
mergedAddress(found, v) ==
    [id |-> found.id, street |-> found.street, houseNumber |-> found.houseNumber,
     firstName |-> v.firstName, lastName |-> v.lastName]

\* mutant: the submit button is never disabled
searchSubmitAlwaysEnabled == TRUE

\* <Button loading={loading} type="submit">: disabled={loading}, so the
\* search form cannot be submitted while the busy flag is set
searchSubmitEnabled == ~loading

\* {values.selectedAddress && <Form ... onFormSubmit={handlePersonSubmit} />}
personFormRendered == values.selectedAddress # ""

Init ==
    /\ values = initialValues
    /\ error = Undefined
    /\ addresses = << >>
    /\ loading = FALSE
    /\ pending = {}
    /\ book = initialState
    /\ last = [op |-> "init", arg |-> << >>]

\* typing into one of the rendered text inputs
changeField ==
    /\ \E name \in {"postCode", "houseNumber", "firstName", "lastName"} :
        /\ name \in {"firstName", "lastName"} => personFormRendered
        /\ \E value \in (CASE name = "postCode" -> PostCodes
                           [] name = "houseNumber" -> HouseNumbers
                           [] name = "firstName" -> FirstNames
                           [] name = "lastName" -> LastNames) :
            values' = handleChange(values, name, value)
    /\ last' = [op |-> "change", arg |-> << >>]
    /\ UNCHANGED <<error, addresses, loading, pending, book>>

\* clicking the radio rendered for one entry of the candidate list
selectAddress ==
    /\ \E i \in 1..Len(addresses) :
        values' = handleChange(values, "selectedAddress", addresses[i].id)
    /\ last' = [op |-> "select", arg |-> << >>]
    /\ UNCHANGED <<error, addresses, loading, pending, book>>

\* mutant: Clear all also empties the address book
handleClearAllResetsBook ==
    /\ values' = resetForm(values)
    /\ addresses' = << >>
    /\ error' = Undefined
    /\ book' = initialState
    /\ last' = [op |-> "clearAll", arg |-> << >>]
    /\ UNCHANGED <<loading, pending>>

handleClearAll ==
    /\ values' = resetForm(values)
    /\ addresses' = << >>
    /\ error' = Undefined
    /\ last' = [op |-> "clearAll", arg |-> << >>]
    /\ UNCHANGED <<loading, pending, book>>

\* mutant: an accepted search does not clear the previous error
handleAddressSubmitKeepsError ==
    /\ searchSubmitEnabled
    /\ addresses' = << >>
    /\ IF searchFieldsMissing(values)
       THEN /\ error' = MsgSearchMandatory
            /\ UNCHANGED <<loading, pending>>
       ELSE /\ UNCHANGED error
            /\ loading' = TRUE
            /\ pending' = pending \cup
                 {[postCode |-> values.postCode, houseNumber |-> values.houseNumber]}
    /\ last' = [op |-> "addressSubmit", arg |-> <<addresses>>]
    /\ UNCHANGED <<values, book>>

\* mutant: the fields are validated before the previous results are cleared
handleAddressSubmitValidatesFirst ==
    /\ searchSubmitEnabled
    /\ IF searchFieldsMissing(values)
       THEN /\ error' = MsgSearchMandatory
            /\ UNCHANGED <<addresses, loading, pending>>
       ELSE /\ error' = Undefined
            /\ addresses' = << >>
            /\ loading' = TRUE
            /\ pending' = pending \cup
                 {[postCode |-> values.postCode, houseNumber |-> values.houseNumber]}
    /\ last' = [op |-> "addressSubmit", arg |-> <<addresses>>]
    /\ UNCHANGED <<values, book>>

\* handleAddressSubmit up to its first await
handleAddressSubmit ==
    /\ searchSubmitEnabled
    /\ addresses' = << >>
    /\ IF searchFieldsMissing(values)
       THEN /\ error' = MsgSearchMandatory
            /\ UNCHANGED <<loading, pending>>
       ELSE /\ error' = Undefined
            /\ loading' = TRUE
            /\ pending' = pending \cup
                 {[postCode |-> values.postCode, houseNumber |-> values.houseNumber]}
    /\ last' = [op |-> "addressSubmit", arg |-> <<addresses>>]
    /\ UNCHANGED <<values, book>>

\* mutant: no `finally`; a thrown fetch leaves the busy flag set
lookupSettlesNoFinally ==
    /\ \E captured \in pending, data \in Responses :
        /\ pending' = pending \ {captured}
        /\ last' = [op |-> "lookupSettles", arg |-> <<captured, data>>]
        /\ IF data.kind = "throw"
           THEN error' = MsgFetchFailed /\ UNCHANGED <<addresses, loading>>
           ELSE /\ loading' = FALSE
                /\ IF data.status = "error"
                   THEN error' = data.errormessage /\ UNCHANGED addresses
                   ELSE IF Len(data.details) > 0
                   THEN addresses' = transformedAddresses(data.details, captured)
                        /\ UNCHANGED error
                   ELSE error' = MsgNoneFound /\ UNCHANGED addresses
    /\ UNCHANGED <<values, book>>

\* handleAddressSubmit after its awaits: try / catch / finally
lookupSettles ==
    /\ \E captured \in pending, data \in Responses :
        /\ pending' = pending \ {captured}
        /\ last' = [op |-> "lookupSettles", arg |-> <<captured, data>>]
        /\ IF data.kind = "throw"
           THEN error' = MsgFetchFailed /\ UNCHANGED addresses
           ELSE IF data.status = "error"
           THEN error' = data.errormessage /\ UNCHANGED addresses
           ELSE IF Len(data.details) > 0
           THEN addresses' = transformedAddresses(data.details, captured)
                /\ UNCHANGED error
           ELSE error' = MsgNoneFound /\ UNCHANGED addresses
    /\ loading' = FALSE
    /\ UNCHANGED <<values, book>>

\* the three rejections of handlePersonSubmit leave everything but the error
personRejected(message) ==
    /\ error' = message
    /\ last' = [op |-> "personSubmit", arg |-> << >>]
    /\ UNCHANGED <<values, addresses, book>>

\* mutant: the selection check runs before the names check
handlePersonSubmitSelectionFirst ==
    /\ personFormRendered
    /\ IF noSelection(values, addresses)
       THEN personRejected(MsgNoSelection)
       ELSE IF namesMissing(values)
       THEN personRejected(MsgNamesMandatory)
       ELSE IF foundAddress(addresses, values.selectedAddress) = 0
       THEN personRejected(MsgNotFound)
       ELSE LET payload ==
                  mergedAddress(
                      addresses[foundAddress(addresses, values.selectedAddress)],
                      values)
            IN /\ error' = Undefined
               /\ book' = addAddress(book, payload)
               /\ values' = resetForm(values)
               /\ addresses' = << >>
               /\ last' = [op |-> "personSubmit", arg |-> <<payload, values>>]
    /\ UNCHANGED <<loading, pending>>

handlePersonSubmit ==
    /\ personFormRendered
    /\ IF namesMissing(values)
       THEN personRejected(MsgNamesMandatory)
       ELSE IF noSelection(values, addresses)
       THEN personRejected(MsgNoSelection)
       ELSE IF foundAddress(addresses, values.selectedAddress) = 0
       THEN personRejected(MsgNotFound)
       ELSE LET payload ==
                  mergedAddress(
                      addresses[foundAddress(addresses, values.selectedAddress)],
                      values)
            IN /\ error' = Undefined
               /\ book' = addAddress(book, payload)
               /\ values' = resetForm(values)
               /\ addresses' = << >>
               /\ last' = [op |-> "personSubmit", arg |-> <<payload, values>>]
    /\ UNCHANGED <<loading, pending>>

Next ==
    \/ changeField
    \/ selectAddress
    \/ handleClearAll
    \/ handleAddressSubmit
    \/ lookupSettles
    \/ handlePersonSubmit

Spec == Init /\ [][Next]_vars

----------------------------------------------------------------------------
(* The address-book slice driven directly by dispatched actions *)

BookIds == {"a1", "b1", "c1"}

\* payloads of addAddress / updateAddresses
AddressRecords ==
    [id : BookIds, street : Streets, houseNumber : {"17"},
     firstName : FirstNames, lastName : {"Doe"}]

dispatchAddAddress ==
    /\ \E payload \in AddressRecords :
        /\ book' = addAddress(book, payload)
        /\ last' = [op |-> "addAddress", arg |-> <<payload>>]
    /\ UNCHANGED <<values, error, addresses, loading, pending>>

NextAdd == dispatchAddAddress

dispatchRemoveAddress ==
    /\ \E id \in BookIds :
        /\ book' = removeAddress(book, id)
        /\ last' = [op |-> "removeAddress", arg |-> <<id, book>>]
    /\ UNCHANGED <<values, error, addresses, loading, pending>>

\* payloads of updateAddresses: lists of complete records, identifiers
\* possibly repeated
UpdatePayloads ==
    SeqsUpTo({r \in AddressRecords : r.firstName # ""}, MaxUpdate)

dispatchUpdateAddresses ==
    /\ \E payload \in UpdatePayloads :
        /\ book' = updateAddresses(book, payload)
        /\ last' = [op |-> "updateAddresses", arg |-> <<payload>>]
    /\ UNCHANGED <<values, error, addresses, loading, pending>>

\* dispatch(updateAddresses(selectAddress(getState())))
dispatchListRoundTrip ==
    /\ book' = updateAddresses(book, selectAddressSelector(book))
    /\ last' = [op |-> "listRoundTrip", arg |-> <<book>>]
    /\ UNCHANGED <<values, error, addresses, loading, pending>>

NextBook ==
    \/ dispatchAddAddress
    \/ dispatchRemoveAddress
    \/ dispatchUpdateAddresses
    \/ dispatchListRoundTrip

SpecAdd == Init /\ [][NextAdd]_vars

SpecBook == Init /\ [][NextBook]_vars

----------------------------------------------------------------------------
(* The form hook on its own: useForm({ firstName: "", country: "NL" }) *)

formInitialValues == [firstName |-> "", country |-> "NL"]

\* names of the inputs wired to handleChange; "nickname" is not a key of the
\* initial values
FormNames == {"firstName", "country", "nickname"}

FormValues == {"", "NL", "Jane"}

\* Partial<T>: mappings over some of the keys of the initial values
Overrides ==
    UNION {[keys -> FormValues] : keys \in SUBSET (DOMAIN formInitialValues)}

InitForm ==
    /\ values = formInitialValues
    /\ error = Undefined
    /\ addresses = << >>
    /\ loading = FALSE
    /\ pending = {}
    /\ book = initialState
    /\ last = [op |-> "init", arg |-> << >>]

formHandleChange ==
    /\ \E name \in FormNames, value \in FormValues :
        /\ values' = handleChange(values, name, value)
        /\ last' = [op |-> "handleChange", arg |-> <<name, value>>]
    /\ UNCHANGED <<error, addresses, loading, pending, book>>

\* arg: the argument, the mapping before the call, and the call before it
formResetForm ==
    /\ \E newValues \in {Omitted} \cup {<<o>> : o \in Overrides} :
        /\ values' = resetFormTo(values, newValues, formInitialValues)
        /\ last' = [op |-> "resetForm",
                    arg |-> <<newValues, values, last.op,
                              IF last.op = "resetForm" THEN last.arg[1] ELSE Omitted>>]
    /\ UNCHANGED <<error, addresses, loading, pending, book>>

NextForm ==
    \/ formHandleChange
    \/ formResetForm

SpecForm == InitForm /\ [][NextForm]_vars

----------------------------------------------------------------------------
(* Properties *)

\* C1: under add alone the book never holds two records with one identifier,
\* and an add whose identifier is already present leaves the book as it was;
\* an add of a new identifier appends the payload at the end.
C1_AddKeepsUnique ==
    [][last'.op = "addAddress" =>
         LET payload == last'.arg[1] IN
         /\ DistinctIds(book')
         /\ (\E i \in 1..Len(book) : book[i].id = payload.id) => book' = book
         /\ (\A i \in 1..Len(book) : book[i].id # payload.id) =>
                book' = book \o <<payload>>]_vars

\* C1 witness: an add was dispatched whose identifier the book already held
\* with other content, and the earlier record is still the one stored.
C1_Witness ==
    /\ last.op = "addAddress"
    /\ Len(book) = 3
    /\ \E i \in 1..Len(book) :
        book[i].id = last.arg[1].id /\ book[i] # last.arg[1]

\* C2: a search submitted with the postcode or the house number empty starts
\* no lookup, does not set the busy flag, and leaves the mandatory-fields error.
C2_EmptySearchRejected ==
    [][(last'.op = "addressSubmit"
            /\ (values.postCode = "" \/ values.houseNumber = "")) =>
         /\ pending' = pending
         /\ pending' = {}
         /\ ~loading'
         /\ error' = MsgSearchMandatory]_vars

\* C2 witness: a search was rejected with the postcode filled and the house
\* number empty.
C2_Witness ==
    /\ last.op = "addressSubmit"
    /\ values.postCode # ""
    /\ values.houseNumber = ""
    /\ error = MsgSearchMandatory
    /\ pending = {}

\* C3: personal info submitted with no selection, no candidates, or a
\* selection that matches no current candidate leaves the book unchanged.
C3_UnresolvedSelectionKeepsBook ==
    [][(last'.op = "personSubmit"
            /\ \/ values.selectedAddress = ""
               \/ addresses = << >>
               \/ \A i \in 1..Len(addresses) :
                     addresses[i].id # values.selectedAddress) =>
         book' = book]_vars

\* C3 witness: names filled, candidates shown, and the selection, made in an
\* earlier result set, is not among them; the submit was rejected.
C3_Witness ==
    /\ last.op = "personSubmit"
    /\ values.firstName # "" /\ values.lastName # ""
    /\ values.selectedAddress # ""
    /\ addresses # << >>
    /\ \A i \in 1..Len(addresses) : addresses[i].id # values.selectedAddress
    /\ error = MsgNotFound

\* C4: a settled lookup with candidates makes the candidate list the returned
\* entries in order, each with the house number submitted with that search;
\* with none, the list stays empty and the error is "No addresses found";
\* with status error, the error is the gateway's message and the list stays
\* empty.
C4_LookupOutcome ==
    [][last'.op = "lookupSettles" =>
         LET captured == last'.arg[1]
             data == last'.arg[2]
         IN /\ captured \in pending
            /\ captured.houseNumber \in HouseNumbers \ {""}
            /\ (data.kind = "json" /\ data.status = "ok" /\ Len(data.details) > 0) =>
                 /\ Len(addresses') = Len(data.details)
                 /\ \A i \in 1..Len(data.details) :
                       /\ addresses'[i].id = data.details[i].id
                       /\ addresses'[i].street = data.details[i].street
                       /\ addresses'[i].houseNumber = captured.houseNumber
            /\ (data.kind = "json" /\ data.status = "ok" /\ Len(data.details) = 0) =>
                 addresses' = << >> /\ error' = MsgNoneFound
            /\ (data.kind = "json" /\ data.status = "error") =>
                 addresses' = << >> /\ error' = data.errormessage]_vars

\* C4 witness: two candidates arrived after the house-number field had been
\* changed during the lookup; they carry the submitted number, not the field's.
C4_Witness ==
    /\ last.op = "lookupSettles"
    /\ Len(addresses) = 2
    /\ addresses[1].houseNumber = last.arg[1].houseNumber
    /\ addresses[1].houseNumber # values.houseNumber

\* C5: a personal-info submit that passes the three checks hands add the
\* resolved candidate merged with the form's names, then leaves names,
\* selection and candidate list empty; every record of the book has non-empty
\* names.
C5_CommitMergesAndClears ==
    /\ [][(last'.op = "personSubmit"
             /\ values.firstName # "" /\ values.lastName # ""
             /\ values.selectedAddress # ""
             /\ \E i \in 1..Len(addresses) :
                   addresses[i].id = values.selectedAddress) =>
            LET i == CHOOSE k \in 1..Len(addresses) :
                        /\ addresses[k].id = values.selectedAddress
                        /\ \A j \in 1..(k - 1) :
                              addresses[j].id # values.selectedAddress
                record == [id |-> addresses[i].id,
                           street |-> addresses[i].street,
                           houseNumber |-> addresses[i].houseNumber,
                           firstName |-> values.firstName,
                           lastName |-> values.lastName]
            IN /\ book' = IF \E j \in 1..Len(book) : book[j].id = record.id
                          THEN book
                          ELSE book \o <<record>>
               /\ values'.firstName = ""
               /\ values'.lastName = ""
               /\ values'.selectedAddress = ""
               /\ addresses' = << >>]_vars
    /\ [](\A i \in 1..Len(book) :
             /\ book[i].firstName \in FirstNames \ {""}
             /\ book[i].lastName \in LastNames \ {""})

\* C5 witness: a commit appended a second record to the book and the
\* personal-info fields, the selection and the candidate list are empty.
C5_Witness ==
    /\ last.op = "personSubmit"
    /\ last.arg # << >>
    /\ Len(book) = 2
    /\ book[2] = last.arg[1]
    /\ book[2].firstName = "John"
    /\ values.firstName = "" /\ values.lastName = ""
    /\ values.selectedAddress = ""
    /\ addresses = << >>

\* C6 as claimed: a successful commit resets the candidate list, the names
\* and the selection, and the postcode and house-number fields keep their
\* values.
C6_Claimed_SearchFieldsKept ==
    [][(last'.op = "personSubmit" /\ last'.arg # << >>) =>
         /\ addresses' = << >>
         /\ values'.firstName = "" /\ values'.lastName = ""
         /\ values'.selectedAddress = ""
         /\ values'.postCode = values.postCode
         /\ values'.houseNumber = values.houseNumber]_vars

\* C6 amended: a successful commit resets the candidate list and all five
\* form fields, postcode and house number included, to their initial empty
\* values and leaves no error: the session fields are as after Clear all.
C6_CommitResetsAllFields ==
    [][(last'.op \in {"personSubmit", "clearAll"}
            /\ (last'.op = "personSubmit" => last'.arg # << >>)) =>
         /\ values' = initialValues
         /\ addresses' = << >>
         /\ error' = Undefined]_vars

\* C6 witness: a commit made with postcode and house number still filled in
\* left both of them empty.
C6_Witness ==
    /\ last.op = "personSubmit"
    /\ last.arg # << >>
    /\ last.arg[2].postCode # ""
    /\ last.arg[2].houseNumber # ""
    /\ values.postCode = ""
    /\ values.houseNumber = ""

\* the errors a handler itself can set
OwnErrors(op) ==
    CASE op = "addressSubmit" -> {MsgSearchMandatory}
      [] op = "personSubmit" -> {MsgNamesMandatory, MsgNoSelection, MsgNotFound}
      [] OTHER -> {}

\* C7 as claimed: after Submit search, Select candidate, Submit personal info
\* or Clear all the error is absent or one that same action set.
C7_Claimed_EveryAttemptClearsError ==
    [][last'.op \in {"addressSubmit", "select", "personSubmit", "clearAll"} =>
         error' \in {Undefined} \cup OwnErrors(last'.op)]_vars

\* C7 amended: after Submit search, Submit personal info or Clear all the
\* error is absent or one that same action set; Select candidate, like any
\* field change, leaves the error exactly as it was.
C7_SubmitsAndClearAllClearError ==
    [][/\ last'.op \in {"addressSubmit", "personSubmit", "clearAll"} =>
            error' \in {Undefined} \cup OwnErrors(last'.op)
       /\ last'.op \in {"select", "change"} => error' = error]_vars

\* C7 witness: an error set by an earlier action is still shown after a
\* candidate was selected.
C7_Witness ==
    /\ last.op = "select"
    /\ error = MsgNamesMandatory
    /\ values.selectedAddress # ""

\* C8: Submit personal info reports the first failing check, in the order
\* names, selection and non-empty candidate list, selection resolves, and
\* changes nothing but the error.
C8_PersonChecksInOrder ==
    [][last'.op = "personSubmit" =>
         LET namesEmpty == values.firstName = "" \/ values.lastName = ""
             unselected == values.selectedAddress = "" \/ addresses = << >>
             unresolved == \A i \in 1..Len(addresses) :
                              addresses[i].id # values.selectedAddress
             onlyError == UNCHANGED <<values, addresses, loading, pending, book>>
         IN /\ namesEmpty => error' = MsgNamesMandatory /\ onlyError
            /\ (~namesEmpty /\ unselected) => error' = MsgNoSelection /\ onlyError
            /\ (~namesEmpty /\ ~unselected /\ unresolved) =>
                   error' = MsgNotFound /\ onlyError]_vars

\* C8 witness: a name is empty and the candidate list is empty too; the
\* names error, the first check's, is the one reported.
C8_Witness ==
    /\ last.op = "personSubmit"
    /\ values.lastName = ""
    /\ values.firstName # ""
    /\ addresses = << >>
    /\ error = MsgNamesMandatory

\* C9 as claimed: Clear all in any state leaves all fields initial, the
\* candidate list empty, no error, the busy flag not set and no lookup of the
\* session pending; nothing settles afterwards to change list or error.
C9_Claimed_ClearAllReachesIdle ==
    [][/\ last'.op = "clearAll" =>
            /\ values' = initialValues
            /\ addresses' = << >>
            /\ error' = Undefined
            /\ ~loading'
            /\ pending' = {}
       /\ (last.op = "clearAll" /\ last'.op = "lookupSettles") =>
            addresses' = << >> /\ error' = Undefined]_vars

\* C10: the book changes only in a Submit personal info that passes all three
\* checks; every other step leaves its records and their order as they were.
C10_OnlyCommitChangesBook ==
    [][book' # book =>
         /\ last'.op = "personSubmit"
         /\ values.firstName # "" /\ values.lastName # ""
         /\ \E i \in 1..Len(addresses) : addresses[i].id = values.selectedAddress]_vars

\* C10 witness: Clear all ran after a commit and the committed record is
\* still in the book.
C10_Witness ==
    /\ last.op = "clearAll"
    /\ Len(book) = 1
    /\ values = initialValues
    /\ addresses = << >>

\* C11: the busy flag is set exactly while a lookup is pending: an accepted
\* search sets it, every way a lookup settles clears it, a rejected search
\* does not set it.
C11_BusyIffLookupPending ==
    /\ [](loading <=> pending # {})
    /\ [][/\ (last'.op = "addressSubmit"
                /\ values.postCode # "" /\ values.houseNumber # "") =>
                loading' /\ pending' # {}
          /\ (last'.op = "addressSubmit"
                /\ (values.postCode = "" \/ values.houseNumber = "")) =>
                ~loading'
          /\ last'.op = "lookupSettles" => ~loading' /\ pending' = {}]_vars

\* C11 witness: a lookup ended in a transport failure and the busy flag is
\* clear again.
C11_Witness ==
    /\ last.op = "lookupSettles"
    /\ last.arg[2].kind = "throw"
    /\ error = MsgFetchFailed
    /\ ~loading
    /\ pending = {}

\* C12: while the busy flag is set no search is submitted, so at most one
\* lookup is pending at any time.
C12_OneLookupAtATime ==
    /\ [](Cardinality(pending) <= 1)
    /\ [][loading => last'.op # "addressSubmit"]_vars

\* C12 witness: a lookup is pending and the search fields now hold another,
\* complete query that a submit would send.
C12_Witness ==
    /\ loading
    /\ Cardinality(pending) = 1
    /\ values.postCode # ""
    /\ values.houseNumber # ""
    /\ \A p \in pending : p.houseNumber # values.houseNumber

\* C13 as claimed: a search rejected for an empty postcode or house number
\* changes nothing but the error; candidate list and selection are kept.
C13_Claimed_RejectedSearchKeepsList ==
    [][(last'.op = "addressSubmit"
            /\ (values.postCode = "" \/ values.houseNumber = "")) =>
         /\ error' = MsgSearchMandatory
         /\ UNCHANGED <<values, addresses, loading, pending, book>>]_vars

\* C13 amended: a rejected search sets the mandatory-fields error and empties
\* the candidate list; the form fields, the selection among them, the busy
\* flag and the book are kept.
C13_RejectedSearchClearsList ==
    [][(last'.op = "addressSubmit"
            /\ (values.postCode = "" \/ values.houseNumber = "")) =>
         /\ error' = MsgSearchMandatory
         /\ addresses' = << >>
         /\ UNCHANGED <<values, loading, pending, book>>]_vars

\* C13 witness: a search was rejected while two candidates were shown and one
\* of them selected; the list is empty now and the selection still set.
C13_Witness ==
    /\ last.op = "addressSubmit"
    /\ error = MsgSearchMandatory
    /\ Len(last.arg[1]) = 2
    /\ values.selectedAddress = last.arg[1][2].id
    /\ addresses = << >>

\* C14: replacing the book by its own listing leaves the same records in the
\* same order, for every book add, remove and replace-all can produce.
C14_ListRoundTrip ==
    [][last'.op = "listRoundTrip" => book' = book]_vars

\* C14 witness: the round trip ran on a book that holds one identifier twice.
C14_Witness ==
    /\ last.op = "listRoundTrip"
    /\ Len(book) >= 2
    /\ ~DistinctIds(book)
    /\ book = last.arg[1]

\* C15: remove drops the records with the given identifier and keeps every
\* other record in its original relative order; with no such record the book
\* is unchanged.
C15_RemoveKeepsOthersInOrder ==
    [][last'.op = "removeAddress" =>
         LET id == last'.arg[1] IN
         /\ (\A i \in 1..Len(book) : book[i].id # id) => book' = book
         /\ \A i \in 1..Len(book') : book'[i].id # id
         /\ book' = SelectSeq(book, LAMBDA address : address.id # id)]_vars

\* C15 witness: the middle one of three records was removed; the first and
\* the third remain, in that order.
C15_Witness ==
    /\ last.op = "removeAddress"
    /\ Len(last.arg[2]) = 3
    /\ last.arg[2][2].id = last.arg[1]
    /\ book = <<last.arg[2][1], last.arg[2][3]>>

\* C18: a book with pairwise distinct identifiers keeps them distinct under
\* add, remove and any replace-all whose argument has distinct identifiers;
\* distinctness is lost only in a replace-all whose argument repeats one.
C18_UniquenessLostOnlyByReplaceAll ==
    [][(DistinctIds(book) /\ ~DistinctIds(book')) =>
         /\ last'.op = "updateAddresses"
         /\ ~DistinctIds(last'.arg[1])]_vars

\* C18 witness: an add followed a replace-all of two distinct records; the
\* three identifiers of the book are distinct.
C18_Witness ==
    /\ last.op = "addAddress"
    /\ Len(book) = 3
    /\ DistinctIds(book)
    /\ book[3] = last.arg[1]
    /\ book[1].firstName # "" /\ book[2].firstName # ""

\* C16 as claimed: after resetFields() the mapping equals the initial values
\* and after resetFields(overrides) it equals overrides, whatever it held.
C16_Claimed_ResetReplacesMapping ==
    [][last'.op = "resetForm" =>
         IF last'.arg[1] = Omitted
         THEN values' = formInitialValues
         ELSE values' = last'.arg[1][1]]_vars

\* C16 amended: resetFields lays the initial values, or the overrides if
\* given, over the mapping: every key of the overlay takes the overlay's
\* value and every other key of the mapping keeps its value.
C16_ResetMergesIntoMapping ==
    [][last'.op = "resetForm" =>
         LET overlay == IF last'.arg[1] = Omitted
                        THEN formInitialValues
                        ELSE last'.arg[1][1]
         IN /\ DOMAIN values' = DOMAIN values \cup DOMAIN overlay
            /\ \A k \in DOMAIN overlay : values'[k] = overlay[k]
            /\ \A k \in DOMAIN values \ DOMAIN overlay : values'[k] = values[k]]_vars

\* C16 witness: resetFields(overrides) ran on a mapping with an extra key and
\* a changed initial key that overrides does not name; both kept their values.
C16_Witness ==
    /\ last.op = "resetForm"
    /\ last.arg[1] # Omitted
    /\ DOMAIN last.arg[1][1] = {"firstName"}
    /\ "nickname" \in DOMAIN values
    /\ values["nickname"] = "Jane"
    /\ values["country"] = ""

\* C17: resetFields() called twice in succession yields the mapping one call
\* yields, and so do two successive resetFields(overrides) with the same
\* overrides.
C17_ResetIdempotent ==
    [][(last.op = "resetForm" /\ last'.op = "resetForm"
            /\ last'.arg[1] = last.arg[1]) =>
         values' = values]_vars

\* C17 witness: the second of two successive resetFields(overrides) with the
\* same, non-empty overrides has run, on a mapping that is not the initial one.
C17_Witness ==
    /\ last.op = "resetForm"
    /\ last.arg[3] = "resetForm"
    /\ last.arg[4] = last.arg[1]
    /\ last.arg[1] # Omitted
    /\ DOMAIN last.arg[1][1] # {}
    /\ last.arg[2] = values
    /\ DOMAIN values # DOMAIN formInitialValues

\* C19: committing a candidate whose identifier the book already holds leaves
\* the book as it was, the first record's names included, and still counts as
\* a commit: no error, names, selection and candidate list cleared.
C19_DuplicateCommitIsSilent ==
    [][(last'.op = "personSubmit"
            /\ values.firstName # "" /\ values.lastName # ""
            /\ (\E i \in 1..Len(addresses) :
                   addresses[i].id = values.selectedAddress)
            /\ (\E j \in 1..Len(book) : book[j].id = values.selectedAddress)) =>
         /\ book' = book
         /\ error' = Undefined
         /\ values'.firstName = "" /\ values'.lastName = ""
         /\ values'.selectedAddress = ""
         /\ addresses' = << >>]_vars

\* C19 witness: a commit of an identifier already in the book, under another
\* first name, went through without error; the book still has the first name
\* it had.
C19_Witness ==
    /\ last.op = "personSubmit"
    /\ last.arg # << >>
    /\ \E j \in 1..Len(book) :
        /\ book[j].id = last.arg[1].id
        /\ book[j].firstName # last.arg[1].firstName
    /\ error = Undefined
    /\ addresses = << >>
    /\ values.firstName = ""

\* C20 as claimed: in every state a non-empty selection is the identifier of
\* a candidate of the current candidate list.
C20_Claimed_SelectionAlwaysInList ==
    values.selectedAddress # "" =>
        \E i \in 1..Len(addresses) : addresses[i].id = values.selectedAddress

\* C20 amended: a selection is made from the current candidate list, and
\* commit and Clear all clear it with the list; a search, accepted or
\* rejected, and the settling of a lookup leave the selection as it was, so a
\* non-empty selection can name no candidate of the current list.
C20_SelectionClearedOnlyByReset ==
    [][/\ last'.op = "select" =>
            \E i \in 1..Len(addresses') :
                addresses'[i].id = values'.selectedAddress
       /\ (last'.op = "clearAll"
             \/ (last'.op = "personSubmit" /\ last'.arg # << >>)) =>
            values'.selectedAddress = "" /\ addresses' = << >>
       /\ last'.op \in {"addressSubmit", "lookupSettles"} =>
            values'.selectedAddress = values.selectedAddress]_vars

\* C20 witness: a lookup settled with candidates while a selection from an
\* earlier result set was still in place; it names none of them.
C20_Witness ==
    /\ last.op = "lookupSettles"
    /\ addresses # << >>
    /\ values.selectedAddress # ""
    /\ \A i \in 1..Len(addresses) : addresses[i].id # values.selectedAddress

====
